---- MODULE Spec2Model ----
(***************************************************************************)
(* incidentist: the report package's Generate pipeline                      *)
(*   parseDates -> fetchIncidents -> fetchPages -> correlation -> rendering *)
(* and main's handling of its result (printing, or Upload to Confluence),   *)
(* as a state machine. One run of Generate is one behaviour; the answers of *)
(* the incident service (Datadog) and of the paging service (PagerDuty) are *)
(* chosen in the initial state and never change during the run.             *)
(*                                                                          *)
(* Strings the code transforms (titles, replace rules, tag lists) are       *)
(* sequences of one-character strings. Timestamps are whole minutes since   *)
(* Go's zero time.Time; every timestamp a service really reports is far     *)
(* later than the zero time.                                                *)
(***************************************************************************)
EXTENDS Integers, Sequences, FiniteSets, TLC

VARIABLES
    request,       \* the caller's GenerateRequest value
    ddIncidents,   \* answer of the incident service to the search
    pdTeamDir,     \* answer of the paging service to the team listing
    pdPages,       \* answer of the paging service to the incident listing
    pc,            \* position of Generate
    outcome,       \* "none" while running, then "ok" | "error" | "panic"
    ddCalls,       \* requests made to the incident service so far
    pdCalls,       \* requests made to the paging service so far
    warnings,      \* diagnostics written to the error stream so far
    pagerdutyTeams,\* Generate's local of that name
    incidents,     \* []*incident, as returned by fetchIncidents
    regexReplace,  \* the entries of fetchPages' map[*regexp.Regexp]string
    k,             \* index of fetchPages' loop over incResp.Incidents
    locals,        \* per raw page already visited: the loop body's locals
    pages,         \* []*page built by fetchPages
    ci,            \* index of Generate's correlation loop over pages
    report,        \* the rendered document
    doUpload,      \* main: whether a Confluence subdomain was given
    confluence,    \* how the conversion and the publishing service answer
    stdout,        \* main: the texts printed so far
    posted,        \* the requests made to the publishing service so far
    exitStatus,    \* main: "running", then "returned" | "failed" | "crashed"
    exitMsg,       \* main: the message of exit(), <<>> when there is none
    markdownContent,\* UploadRequest.MarkdownContent, <<>> before an upload
    teamName,      \* getTeamId: the name it was called with
    offset,        \* getTeamId: its local of that name
    response,      \* getTeamId: the last answer of ListTeams
    asked,         \* getTeamId: the offsets it has asked for
    repeated,      \* getTeamId: whether it asked for an offset it had asked before
    teamID         \* getTeamId: what it returned, [id, err]

lookupVars == <<teamName, offset, response, asked, repeated, teamID>>

mainVars == <<doUpload, confluence, stdout, posted, exitStatus, exitMsg,
              markdownContent, lookupVars>>

vars == <<request, ddIncidents, pdTeamDir, pdPages, pc, outcome, ddCalls, pdCalls,
          warnings, pagerdutyTeams, incidents, regexReplace, k, locals, pages, ci,
          report, doUpload, confluence, stdout, posted, exitStatus, exitMsg,
          markdownContent, teamName, offset, response, asked, repeated, teamID>>

(***************************************************************************)
(* Bounds of the model.                                                     *)
(***************************************************************************)
MaxIncidents == 2
MaxPages == 2
MaxTagPages == 1
MaxRules == 2
MaxFilters == 2
MaxAlerts == 2
MaxTeams == 2

(***************************************************************************)
(* Time.                                                                    *)
(***************************************************************************)
ZeroTime == 0

\* 15*time.Minute, in minutes
Lead == 15

After(t, u) == t > u

Before(t, u) == t < u

(***************************************************************************)
(* Strings (package strings), on sequences of characters.                   *)
(***************************************************************************)
RECURSIVE TrimLeft(_, _)
TrimLeft(s, c) ==
    IF Len(s) > 0 /\ Head(s) = c THEN TrimLeft(Tail(s), c) ELSE s

RECURSIVE TrimRight(_, _)
TrimRight(s, c) ==
    IF Len(s) > 0 /\ s[Len(s)] = c
    THEN TrimRight(SubSeq(s, 1, Len(s) - 1), c)
    ELSE s

\* strings.Trim(s, cutset) for a one-character cutset
Trim(s, c) == TrimRight(TrimLeft(s, c), c)

\* strings.TrimSpace
TrimSpace(s) == Trim(s, " ")

RECURSIVE IndexFrom(_, _, _)
IndexFrom(s, c, i) ==
    IF i > Len(s) THEN 0
    ELSE IF s[i] = c THEN i
    ELSE IndexFrom(s, c, i + 1)

\* strings.SplitN(s, sep, 2): cut at the first separator, if there is one
SplitN(s, c) ==
    LET i == IndexFrom(s, c, 1)
    IN IF i = 0 THEN <<s>>
       ELSE <<SubSeq(s, 1, i - 1), SubSeq(s, i + 1, Len(s))>>

\* strings.Split(s, sep): cut at every separator
RECURSIVE Split(_, _)
Split(s, c) ==
    LET i == IndexFrom(s, c, 1)
    IN IF i = 0 THEN <<s>>
       ELSE <<SubSeq(s, 1, i - 1)>> \o Split(SubSeq(s, i + 1, Len(s)), c)

HasPrefix(s, p) == Len(s) >= Len(p) /\ SubSeq(s, 1, Len(p)) = p

(***************************************************************************)
(* Title normalizer: getRegexReplace and the replace loop of fetchPages.    *)
(* Patterns are literal text outside parentheses; a pattern whose           *)
(* parentheses do not balance is one regexp refuses to compile.             *)
(***************************************************************************)
RECURSIVE ParenDepth(_, _)
ParenDepth(p, d) ==
    IF d < 0 \/ Len(p) = 0 THEN d
    ELSE ParenDepth(Tail(p), IF Head(p) = "(" THEN d + 1
                             ELSE IF Head(p) = ")" THEN d - 1
                             ELSE d)

\* regexp.Compile succeeds
Compiles(p) == ParenDepth(p, 0) = 0

\* one rule "/pattern/replacement/" cut into the pattern and the replacement
ParseRule(r) ==
    LET parts == SplitN(Trim(r, "/"), "/")
    IN [re |-> parts[1], with |-> IF Len(parts) = 2 THEN parts[2] ELSE <<>>]

\* getRegexReplace: one map entry per rule (the keys are fresh pointers), listed
\* here in insertion order; regexp.MustCompile panics on a pattern that does
\* not compile. SplitN never yields fewer than one part, so the function's
\* error return is dead code.
getRegexReplace(replace) ==
    IF \E j \in 1..Len(replace) : ~Compiles(ParseRule(replace[j]).re)
    THEN [panic |-> TRUE, entries |-> <<>>]
    ELSE [panic |-> FALSE,
          entries |-> [j \in 1..Len(replace) |-> ParseRule(replace[j])]]

RECURSIVE Interleave(_, _)
Interleave(src, repl) ==
    IF Len(src) = 0 THEN repl
    ELSE repl \o <<Head(src)>> \o Interleave(Tail(src), repl)

\* (*Regexp).ReplaceAllString for a literal pattern and a replacement without $:
\* every leftmost non-overlapping match is replaced
RECURSIVE ReplaceAllString(_, _, _)
ReplaceAllString(src, re, repl) ==
    IF Len(re) = 0 THEN Interleave(src, repl)
    ELSE IF Len(src) = 0 THEN <<>>
    ELSE IF HasPrefix(src, re)
         THEN repl \o ReplaceAllString(SubSeq(src, Len(re) + 1, Len(src)), re, repl)
         ELSE <<Head(src)>> \o ReplaceAllString(Tail(src), re, repl)

\* the orders in which a range over a Go map of n entries can visit them
MapOrders(n) ==
    {f \in [1..n -> 1..n] : \A a, b \in 1..n : a # b => f[a] # f[b]}

\* for r, replace := range regexReplace { title = r.ReplaceAllString(title, replace) }
\* with the entries visited in the order ord
RECURSIVE ApplyRules(_, _, _, _)
ApplyRules(title, entries, ord, j) ==
    IF j > Len(entries) THEN title
    ELSE ApplyRules(ReplaceAllString(title, entries[ord[j]].re, entries[ord[j]].with),
                    entries, ord, j + 1)

(***************************************************************************)
(* Tag filter: getTagsFromPagerdutyAlert and pagerdutyIncidentMatchesTags.  *)
(* An alert body is [details, tags, tagsString]: details is "absent",       *)
(* "scalar" or "map"; tags (of a map) is "absent", "nonstring" or "string". *)
(***************************************************************************)
NilTags == [nil |-> TRUE, set |-> {}]

\* mutant of getTagsFromPagerdutyAlert: a tags value of any type is read as text
getTagsFromPagerdutyAlert_AnyType(alert) ==
    IF alert.details # "map" \/ alert.tags = "absent" THEN NilTags
    ELSE LET tokens == Split(alert.tagsString, ",")
         IN [nil |-> FALSE,
             set |-> {TrimSpace(tokens[j]) : j \in 1..Len(tokens)}]

getTagsFromPagerdutyAlert(alert) ==
    IF alert.details = "absent" THEN NilTags
    ELSE IF alert.details # "map" THEN NilTags
    ELSE IF alert.tags = "absent" THEN NilTags
    ELSE IF alert.tags # "string" THEN NilTags
    ELSE LET tokens == Split(alert.tagsString, ",")
         IN [nil |-> FALSE,
             set |-> {TrimSpace(tokens[j]) : j \in 1..Len(tokens)}]

\* the inner loop: found stays true until a filter is missing
RECURSIVE AllFiltersFound(_, _, _)
AllFiltersFound(alertTags, tagFilters, j) ==
    IF j > Len(tagFilters) THEN TRUE
    ELSE IF tagFilters[j] \notin alertTags THEN FALSE
    ELSE AllFiltersFound(alertTags, tagFilters, j + 1)

\* mutant of AnyAlertMatches: the tags of all the alerts are pooled
AnyAlertMatches_Pooled(alerts, tagFilters, a) ==
    \A j \in 1..Len(tagFilters) :
        \E b \in 1..Len(alerts) :
            tagFilters[j] \in getTagsFromPagerdutyAlert(alerts[b]).set

\* the loop over alertsResp.Alerts, returning at the first alert that matches
RECURSIVE AnyAlertMatches(_, _, _)
AnyAlertMatches(alerts, tagFilters, a) ==
    IF a > Len(alerts) THEN FALSE
    ELSE LET alertTags == getTagsFromPagerdutyAlert(alerts[a])
         IN IF alertTags.nil THEN AnyAlertMatches(alerts, tagFilters, a + 1)
            ELSE IF AllFiltersFound(alertTags.set, tagFilters, 1) THEN TRUE
            ELSE AnyAlertMatches(alerts, tagFilters, a + 1)

\* mutant of pagerdutyIncidentMatchesTags: a failed alert lookup admits the page
pagerdutyIncidentMatchesTags_ErrAdmits(p, tagFilters) ==
    IF Len(tagFilters) = 0
    THEN [matched |-> TRUE, err |-> FALSE, calls |-> 0]
    ELSE IF p.alerts.err
         THEN [matched |-> TRUE, err |-> FALSE, calls |-> 1]
         ELSE [matched |-> AnyAlertMatches(p.alerts.list, tagFilters, 1),
               err |-> FALSE, calls |-> 1]

\* pagerdutyIncidentMatchesTags(client, p.ID, tagFilters) for the raw page p;
\* calls counts the requests it makes
pagerdutyIncidentMatchesTags(p, tagFilters) ==
    IF Len(tagFilters) = 0
    THEN [matched |-> TRUE, err |-> FALSE, calls |-> 0]
    ELSE IF p.alerts.err
         THEN [matched |-> FALSE, err |-> TRUE, calls |-> 1]
         ELSE [matched |-> AnyAlertMatches(p.alerts.list, tagFilters, 1),
               err |-> FALSE, calls |-> 1]

(***************************************************************************)
(* fetchIncidents: the incidents built from the search hits, then sorted.   *)
(* A search hit is [publicId, created, resolved], resolved a nullable time. *)
(***************************************************************************)
Unset == [isSet |-> FALSE, at |-> ZeroTime]

SetAt(t) == [isSet |-> TRUE, at |-> t]

\* mutant of NewIncident: an unresolved incident counts as resolved in the far future
NewIncident_OpenEnded(raw) ==
    [id |-> raw.publicId,
     createdAt |-> raw.created,
     resolvedAt |-> IF raw.resolved.isSet THEN raw.resolved.at ELSE 1000000,
     pages |-> <<>>]

\* incident := &incident{...}; resolvedAt stays the zero time unless Resolved is set
NewIncident(raw) ==
    [id |-> raw.publicId,
     createdAt |-> raw.created,
     resolvedAt |-> IF raw.resolved.isSet THEN raw.resolved.at ELSE ZeroTime,
     pages |-> <<>>]

byCreatedAt(a, b) == Before(a.createdAt, b.createdAt)

\* mutant of SortSlice: the slice is left in the order of the answer
SortSlice_None(s) == {s}

\* sort.Slice(incidents, byCreatedAt): the slice ends up in some order in which no
\* element is less than an earlier one; sort.Slice does not promise more (it is
\* documented as not stable), so elements that compare equal may come out in
\* any order
SortSlice(s) ==
    {[j \in 1..Len(s) |-> s[f[j]]] :
        f \in {g \in MapOrders(Len(s)) :
                 \A a, b \in 1..Len(s) : a < b => ~byCreatedAt(s[g[b]], s[g[a]])}}

(***************************************************************************)
(* Small helpers of Generate and fetchPages.                                *)
(***************************************************************************)
\* strings.ToLower on the team names of the model
ToLower(name) ==
    IF name = "Ops" THEN "ops" ELSE IF name = "Db" THEN "db" ELSE name

\* mutant of ParseTime: a string that does not parse gives a time of the period
ParseTime_InPeriod(str) == IF str.ok THEN str.at ELSE 110

\* time.Parse(layout, s) as the request's and the services' strings answer it:
\* a date or timestamp string is [ok, at], ok telling whether it parses
ParseTime(str) == IF str.ok THEN str.at ELSE ZeroTime

\* mutant of parseDatesFails: until has to be after since
parseDatesFails_NotAfter(since, until) ==
    \/ ~since.ok
    \/ ~until.ok
    \/ ~After(ParseTime(until), ParseTime(since))

\* parseDates: an error for an unparseable date or for until before since
parseDatesFails(since, until) ==
    \/ ~since.ok
    \/ ~until.ok
    \/ Before(ParseTime(until), ParseTime(since))

\* getTeamId(name, client) finds a team: the listing succeeds and some listed
\* team's lower-cased name equals name
getTeamIdFinds(name, dir) ==
    /\ ~dir.err
    /\ \E t \in dir.names : ToLower(t) = name

\* mutant of getTeamIds: one team that is not found is an error
getTeamIds_Strict(teams, dir) ==
    LET found == {j \in 1..Len(teams) : getTeamIdFinds(teams[j], dir)}
    IN [err |-> Cardinality(found) < Len(teams), warn |-> FALSE]

\* getTeamIds(teams, client): an error only when no team at all was found, a
\* warning when some were not
getTeamIds(teams, dir) ==
    LET found == {j \in 1..Len(teams) : getTeamIdFinds(teams[j], dir)}
    IN [err |-> found = {},
        warn |-> found # {} /\ Cardinality(found) < Len(teams)]

\* link(desc, link): the description with [ and ] turned into |
linkDesc(desc) ==
    [j \in 1..Len(desc) |-> IF desc[j] \in {"[", "]"} THEN "|" ELSE desc[j]]

\* mutant of InWindow: both bounds inclusive
InWindow_Inclusive(p, i) ==
    /\ p.createdAt >= i.createdAt - Lead
    /\ p.createdAt <= i.resolvedAt

\* mutant of InWindow: the lower bound forgotten
InWindow_NoLowerBound(p, i) == Before(p.createdAt, i.resolvedAt)

\* the condition of Generate's correlation loop
InWindow(p, i) ==
    /\ After(p.createdAt, i.createdAt - Lead)
    /\ Before(p.createdAt, i.resolvedAt)

\* mutant of AppendIDs: only the first incident that matches is recorded
AppendIDs_FirstOnly(ids, p, incs, j) ==
    LET hits == {h \in j..Len(incs) : InWindow(p, incs[h])}
    IN IF hits = {} THEN ids
       ELSE Append(ids, incs[CHOOSE h \in hits : \A g \in hits : h <= g].id)

\* p.incidentIDs after the inner loop over incidents j..Len(incs)
RECURSIVE AppendIDs(_, _, _, _)
AppendIDs(ids, p, incs, j) ==
    IF j > Len(incs) THEN ids
    ELSE AppendIDs(IF InWindow(p, incs[j]) THEN Append(ids, incs[j].id) ELSE ids,
                   p, incs, j + 1)

\* one bullet of a page: md.unordered(1, link(time + " " + p.title, p.link))
PageLine(p) == [time |-> p.createdAt, title |-> linkDesc(p.title), link |-> p.link]

\* the text of a note's bullet: "**email**: content", or the content alone
NoteLine(n) ==
    IF n.userEmail # "" THEN <<"**", n.userEmail, "**: ">> \o n.content
    ELSE n.content

\* a page under Other Pages: its bullet and the bullets of its notes
OtherPageLine(p) ==
    [time |-> p.createdAt, title |-> linkDesc(p.title), link |-> p.link,
     notes |-> [j \in 1..Len(p.notes) |-> NoteLine(p.notes[j])]]

EmptyReport ==
    [totalIncidents |-> 0, totalPages |-> 0, sections |-> <<>>, otherPages |-> <<>>]

\* mutant of HasNoIncident: a page linked to one incident still counts as unlinked
HasNoIncident_AtMostOne(p) == Len(p.incidentIDs) <= 1

\* the test of the Other Pages loop, negated: len(p.incidentIDs) != 0 skips the page
HasNoIncident(p) == Len(p.incidentIDs) = 0

\* mutant of TotalPages: only the pages under Other Pages are counted
TotalPages_Unlinked(pgs) == Len(SelectSeq(pgs, HasNoIncident))

\* the page count of the summary line: len(pages)
TotalPages(pgs) == Len(pgs)

\* the document Generate renders from incs and pgs: the counts of the summary
\* line, one section per incident with its page bullets, then Other Pages
RenderReport(incs, pgs) ==
    [totalIncidents |-> Len(incs),
     totalPages |-> TotalPages(pgs),
     sections |->
        [j \in 1..Len(incs) |->
            [id |-> incs[j].id,
             createdAt |-> incs[j].createdAt,
             pageLines |-> [x \in 1..Len(incs[j].pages) |->
                               PageLine(pgs[incs[j].pages[x]])]]],
     otherPages |->
        LET rest == SelectSeq(pgs, HasNoIncident)
        IN [x \in 1..Len(rest) |-> OtherPageLine(rest[x])]]

AfterFetchPages(pgs) == IF Len(pgs) = 0 THEN "render" ELSE "correlate"

(***************************************************************************)
(* Generate, step by step.                                                  *)
(***************************************************************************)
\* sinceAt, untilAt, err := parseDates(request.Since, request.Until)
ParseDates ==
    /\ pc = "parseDates"
    /\ IF parseDatesFails(request.Since, request.Until)
       THEN pc' = "done" /\ outcome' = "error"
       ELSE pc' = "fetchIncidents" /\ outcome' = outcome
    /\ UNCHANGED <<request, ddIncidents, pdTeamDir, pdPages, ddCalls, pdCalls, warnings,
                   pagerdutyTeams, incidents, regexReplace, k, locals, pages, ci, report>>
    /\ UNCHANGED mainVars

\* incidents, err := fetchIncidents(...), then the choice of pagerdutyTeams:
\* request.PdTeams, when given, is lower-cased in place
FetchIncidents ==
    /\ pc = "fetchIncidents"
    /\ ddCalls' = ddCalls + 1
    /\ IF ddIncidents.err
       THEN /\ pc' = "done"
            /\ outcome' = "error"
            /\ UNCHANGED <<incidents, pagerdutyTeams, request>>
       ELSE /\ \E sorted \in SortSlice([j \in 1..Len(ddIncidents.list) |->
                                           NewIncident(ddIncidents.list[j])]) :
                   incidents' = sorted
            /\ IF Len(request.PdTeams) > 0
               THEN LET lowered == [j \in 1..Len(request.PdTeams) |->
                                       ToLower(request.PdTeams[j])]
                    IN /\ pagerdutyTeams' = lowered
                       /\ request' = [request EXCEPT !.PdTeams = lowered]
               ELSE /\ pagerdutyTeams' = request.Teams
                    /\ request' = request
            /\ pc' = "getRegexReplace"
            /\ outcome' = outcome
    /\ UNCHANGED <<ddIncidents, pdTeamDir, pdPages, pdCalls, warnings, regexReplace, k,
                   locals, pages, ci, report>>
    /\ UNCHANGED mainVars

\* fetchPages: regexReplace, err := getRegexReplace(replace)
GetRegexReplace ==
    /\ pc = "getRegexReplace"
    /\ LET r == getRegexReplace(request.Replace)
       IN IF r.panic
          THEN pc' = "done" /\ outcome' = "panic" /\ regexReplace' = regexReplace
          ELSE pc' = "getTeamIds" /\ outcome' = outcome /\ regexReplace' = r.entries
    /\ UNCHANGED <<request, ddIncidents, pdTeamDir, pdPages, ddCalls, pdCalls, warnings,
                   pagerdutyTeams, incidents, k, locals, pages, ci, report>>
    /\ UNCHANGED mainVars

\* fetchPages: teamIDs, err := getTeamIds(pagerdutyTeams, client); an error only
\* when no team at all was found, a warning when some were not
GetTeamIds ==
    /\ pc = "getTeamIds"
    /\ pdCalls' = pdCalls + Len(pagerdutyTeams)
    /\ LET r == getTeamIds(pagerdutyTeams, pdTeamDir)
       IN IF r.err
          THEN pc' = "done" /\ outcome' = "error" /\ warnings' = warnings
          ELSE /\ pc' = "listIncidents"
               /\ outcome' = outcome
               /\ warnings' = IF r.warn THEN warnings + 1 ELSE warnings
    /\ UNCHANGED <<request, ddIncidents, pdTeamDir, pdPages, ddCalls, pagerdutyTeams,
                   incidents, regexReplace, k, locals, pages, ci, report>>
    /\ UNCHANGED mainVars

\* fetchPages: incResp, err := client.ListIncidentsWithContext(...)
ListIncidents ==
    /\ pc = "listIncidents"
    /\ pdCalls' = pdCalls + 1
    /\ IF pdPages.err
       THEN pc' = "done" /\ outcome' = "error"
       ELSE /\ pc' = IF Len(pdPages.list) = 0 THEN AfterFetchPages(pages)
                     ELSE "fetchPage"
            /\ outcome' = outcome
    /\ UNCHANGED <<request, ddIncidents, pdTeamDir, pdPages, ddCalls, warnings,
                   pagerdutyTeams, incidents, regexReplace, k, locals, pages, ci, report>>
    /\ UNCHANGED mainVars

\* the page fetchPages appends for the raw page p: the title field is p.Title
\* mutant of listIncidentNotes: the error of the notes request is dropped
listIncidentNotes_ErrDropped(p) == [err |-> FALSE]

\* notes, err := client.ListIncidentNotesWithContext(ctx, p.ID), for the raw page p
listIncidentNotes(p) == [err |-> p.notesErr]

\* the notes whose author could not be fetched
Unattributed(notes) == {j \in 1..Len(notes) : notes[j].user.err}

\* mutant of pageNotes: a note whose author cannot be fetched is left out
pageNotes_DropUnresolved(notes) ==
    LET known == SelectSeq(notes, LAMBDA n : ~n.user.err)
    IN [j \in 1..Len(known) |->
           [content |-> known[j].content, userEmail |-> known[j].user.email]]

\* the loop over notes: a note keeps its content, and gets its author's email
\* when GetUserWithContext answers; a raw note is [content, user], user being
\* the answer [err, email] for its author
pageNotes(notes) ==
    [j \in 1..Len(notes) |->
        [content |-> notes[j].content,
         userEmail |-> IF notes[j].user.err THEN "" ELSE notes[j].user.email]]

NewPage(p, title, createdAt) ==
    [title |-> p.title, link |-> p.link, createdAt |-> createdAt, incidentIDs |-> <<>>,
     notes |-> pageNotes(p.notes)]

\* fetchPages: one turn of the loop over incResp.Incidents, for the raw page k.
\* The replace loop ranges over the map regexReplace, in an order of Go's choosing.
FetchPage ==
    /\ pc = "fetchPage"
    /\ k <= Len(pdPages.list)
    /\ LET p == pdPages.list[k]
           m == pagerdutyIncidentMatchesTags(p, request.TagFilters)
       IN \E ord \in MapOrders(Len(regexReplace)) :
            LET title == ApplyRules(p.title, regexReplace, ord, 1)
                createdAt == ParseTime(p.createdAt)
                seen == [raw |-> k, tagErr |-> m.err, matched |-> m.matched,
                         normalized |-> FALSE, title |-> <<>>, kept |-> FALSE]
                next(pgs) == IF k = Len(pdPages.list) THEN AfterFetchPages(pgs)
                             ELSE "fetchPage"
            IN IF m.err
               THEN \* could not fetch tags: warn and skip the page
                    /\ pdCalls' = pdCalls + m.calls
                    /\ warnings' = warnings + 1
                    /\ locals' = Append(locals, seen)
                    /\ pages' = pages
                    /\ pc' = next(pages)
                    /\ outcome' = outcome
               ELSE IF ~m.matched
               THEN /\ pdCalls' = pdCalls + m.calls
                    /\ warnings' = warnings
                    /\ locals' = Append(locals, seen)
                    /\ pages' = pages
                    /\ pc' = next(pages)
                    /\ outcome' = outcome
               ELSE IF listIncidentNotes(p).err
               THEN \* could not fetch notes: warn and skip the page
                    /\ pdCalls' = pdCalls + m.calls + 1
                    /\ warnings' = warnings + 1
                    /\ locals' = Append(locals, [seen EXCEPT !.normalized = TRUE,
                                                             !.title = title])
                    /\ pages' = pages
                    /\ pc' = next(pages)
                    /\ outcome' = outcome
               ELSE IF p.logsErr
               THEN \* logs is nil and logs.LogEntries dereferences it
                    /\ pdCalls' = pdCalls + m.calls + 2 + Len(p.notes)
                    /\ warnings' = warnings + Cardinality(Unattributed(p.notes))
                    /\ locals' = Append(locals, [seen EXCEPT !.normalized = TRUE,
                                                             !.title = title])
                    /\ pages' = pages
                    /\ pc' = "done"
                    /\ outcome' = "panic"
               ELSE /\ pdCalls' = pdCalls + m.calls + 2 + Len(p.notes)
                    /\ warnings' = warnings + Cardinality(Unattributed(p.notes))
                    /\ locals' = Append(locals, [seen EXCEPT !.normalized = TRUE,
                                                             !.title = title,
                                                             !.kept = TRUE])
                    /\ pages' = Append(pages, NewPage(p, title, createdAt))
                    /\ pc' = next(pages')
                    /\ outcome' = outcome
    /\ k' = k + 1
    /\ UNCHANGED <<request, ddIncidents, pdTeamDir, pdPages, ddCalls, pagerdutyTeams,
                   incidents, regexReplace, ci, report>>
    /\ UNCHANGED mainVars

\* mutant of appendPage: the page is put in front
appendPage_Front(i, x) == [i EXCEPT !.pages = <<x>> \o @]

\* i.pages = append(i.pages, p), p given by its index in pages
appendPage(i, x) == [i EXCEPT !.pages = Append(@, x)]

\* mutant of linkPage: the inner loop stops at the first incident that matches
linkPage_FirstOnly(incs, pgs, x) ==
    [j \in 1..Len(incs) |->
        IF /\ InWindow(pgs[x], incs[j])
           /\ \A h \in 1..(j - 1) : ~InWindow(pgs[x], incs[h])
        THEN appendPage(incs[j], x)
        ELSE incs[j]]

\* mutant of linkPage: an incident that gets the page takes the page's time
linkPage_Restamped(incs, pgs, x) ==
    [j \in 1..Len(incs) |->
        IF InWindow(pgs[x], incs[j])
        THEN [appendPage(incs[j], x) EXCEPT !.createdAt = pgs[x].createdAt]
        ELSE incs[j]]

\* the inner correlation loop for the page x: every incident whose window holds
\* the page gets a pointer to it
linkPage(incs, pgs, x) ==
    [j \in 1..Len(incs) |->
        IF InWindow(pgs[x], incs[j]) THEN appendPage(incs[j], x) ELSE incs[j]]

\* Generate: one turn of the outer correlation loop, for the page ci; incidents
\* hold pointers to pages, here the page's index in pages
CorrelatePage ==
    /\ pc = "correlate"
    /\ ci <= Len(pages)
    /\ incidents' = linkPage(incidents, pages, ci)
    /\ pages' = [pages EXCEPT ![ci].incidentIDs = AppendIDs(@, pages[ci], incidents, 1)]
    /\ ci' = ci + 1
    /\ pc' = IF ci = Len(pages) THEN "render" ELSE "correlate"
    /\ UNCHANGED <<request, ddIncidents, pdTeamDir, pdPages, outcome, ddCalls, pdCalls,
                   warnings, pagerdutyTeams, regexReplace, k, locals, report>>
    /\ UNCHANGED mainVars

\* Generate: the rendering, and the return of the document
Render ==
    /\ pc = "render"
    /\ report' = RenderReport(incidents, pages)
    /\ pc' = "done"
    /\ outcome' = "ok"
    /\ UNCHANGED <<request, ddIncidents, pdTeamDir, pdPages, ddCalls, pdCalls, warnings,
                   pagerdutyTeams, incidents, regexReplace, k, locals, pages, ci>>
    /\ UNCHANGED mainVars

Next ==
    \/ ParseDates
    \/ FetchIncidents
    \/ GetRegexReplace
    \/ GetTeamIds
    \/ ListIncidents
    \/ FetchPage
    \/ CorrelatePage
    \/ Render

(***************************************************************************)
(* Initial states: the request and the services' answers, drawn from        *)
(* bounded sets; Generate has not started.                                  *)
(***************************************************************************)
SeqsUpTo(S, n) == UNION {[1..m -> S] : m \in 0..n}

Date(d) == [ok |-> TRUE, at |-> d]

BaseRequest ==
    [Teams |-> <<"ops">>, PdTeams |-> <<>>, Since |-> Date(1), Until |-> Date(2),
     TagFilters |-> <<>>, Replace |-> <<>>]

BaseTeamDir == [err |-> FALSE, names |-> {"Ops"}]

NoAlerts == [err |-> FALSE, list |-> <<>>]

\* the search hits of a list of shapes, numbered in the order of the answer
Hits(f) ==
    [j \in 1..Len(f) |->
        [publicId |-> j, created |-> f[j].created, resolved |-> f[j].resolved]]

\* the raw pages of a list of shapes, their links numbered in the order of the answer
RawPages(f) ==
    [j \in 1..Len(f) |->
        [title |-> f[j].title, link |-> j, createdAt |-> f[j].createdAt,
         alerts |-> f[j].alerts, notesErr |-> FALSE, logsErr |-> FALSE,
         notes |-> <<>>]]

\* http.StatusOK
StatusOK == 200

\* the conversion succeeds and the publishing service answers 200
Accepting == [convertErr |-> FALSE, transportErr |-> FALSE, status |-> StatusOK]

\* no Confluence subdomain: nothing is published
NoUpload == doUpload = FALSE /\ confluence = Accepting

\* what getTeamId's answer and ListTeams' answer are before there is one
NoTeamID == [id |-> "", err |-> ""]
NoResponse == [err |-> FALSE, teams |-> <<>>, more |-> FALSE, limit |-> 0]

\* no team lookup is followed turn by turn
NoLookup ==
    /\ teamName = ""
    /\ offset = 0
    /\ response = NoResponse
    /\ asked = {}
    /\ repeated = FALSE
    /\ teamID = NoTeamID

Started ==
    /\ pc = "parseDates"
    /\ outcome = "none"
    /\ ddCalls = 0
    /\ pdCalls = 0
    /\ warnings = 0
    /\ pagerdutyTeams = <<>>
    /\ incidents = <<>>
    /\ regexReplace = <<>>
    /\ k = 1
    /\ locals = <<>>
    /\ pages = <<>>
    /\ ci = 1
    /\ report = EmptyReport
    /\ stdout = <<>>
    /\ posted = <<>>
    /\ exitStatus = "running"
    /\ exitMsg = <<>>
    /\ markdownContent = <<>>
    /\ NoLookup

\* Correlation: incidents and pages at the times around the window's bounds, a
\* page's timestamp possibly unparseable; no replace rule, no tag filter.
HitShapes ==
    [created : {115, 120}, resolved : {Unset, SetAt(105), SetAt(115), SetAt(120)}]

TimedPageShapes ==
    [title : {<<"A">>},
     createdAt : {[ok |-> FALSE, at |-> ZeroTime]} \cup {Date(t) : t \in {100, 105, 110, 120}},
     alerts : {NoAlerts}]

Init ==
    /\ request = BaseRequest
    /\ pdTeamDir = BaseTeamDir
    /\ ddIncidents \in {[err |-> FALSE, list |-> Hits(f)] :
                          f \in SeqsUpTo(HitShapes, MaxIncidents)}
    /\ pdPages \in {[err |-> FALSE, list |-> RawPages(f)] :
                      f \in SeqsUpTo(TimedPageShapes, MaxPages)}
    /\ NoUpload
    /\ Started

Spec == Init /\ [][Next]_vars

(***************************************************************************)
(* Properties of the correlation and of the order of the report.            *)
(***************************************************************************)
\* the correlation loop has visited the page x
Correlated(x) == x \in 1..Len(pages) /\ x < ci

\* the page x is among the linked pages of the incident j
InPagesOf(j, x) == \E y \in 1..Len(incidents[j].pages) : incidents[j].pages[y] = x

\* the id of the incident j is among the linked incident IDs of the page x
InIDsOf(x, j) ==
    \E y \in 1..Len(pages[x].incidentIDs) : pages[x].incidentIDs[y] = incidents[j].id

Returned == pc = "done" /\ outcome = "ok"

\* C1: after correlation, a page P and an incident I are linked (P among I's
\* pages, I's id among P's incident IDs) if and only if
\* I.createdAt - 15 minutes < P.createdAt < I.resolvedAt, both bounds strict.
C1_LinkedIffInOpenWindow ==
    \A x \in 1..Len(pages) : \A j \in 1..Len(incidents) :
        Correlated(x) =>
            LET inside == /\ incidents[j].createdAt - 15 < pages[x].createdAt
                          /\ pages[x].createdAt < incidents[j].resolvedAt
            IN /\ InPagesOf(j, x) <=> inside
               /\ InIDsOf(x, j) <=> inside

\* a run that linked one page, left out a page created exactly 15 minutes before
\* an incident, and left out a page created exactly at an incident's resolution
C1_Witness ==
    /\ Returned
    /\ \E x \in 1..Len(pages) : \E j \in 1..Len(incidents) : InPagesOf(j, x)
    /\ \E x \in 1..Len(pages) : \E j \in 1..Len(incidents) :
          /\ pages[x].createdAt = incidents[j].createdAt - 15
          /\ pages[x].createdAt < incidents[j].resolvedAt
          /\ ~InPagesOf(j, x)
    /\ \E x \in 1..Len(pages) : \E j \in 1..Len(incidents) :
          /\ pages[x].createdAt = incidents[j].resolvedAt
          /\ pages[x].createdAt > incidents[j].createdAt - 15
          /\ ~InPagesOf(j, x)

\* the incident j has no linked page and no page names it
Unlinked(j) ==
    /\ Len(incidents[j].pages) = 0
    /\ \A x \in 1..Len(pages) : ~InIDsOf(x, j)

\* C2, as claimed: an incident whose resolution timestamp is present but earlier
\* than its creation timestamp is linked to no page.
C2_InvertedIncidentLinksNothing ==
    Returned =>
        \A j \in 1..Len(incidents) :
            (incidents[j].resolvedAt # ZeroTime
             /\ incidents[j].resolvedAt < incidents[j].createdAt) => Unlinked(j)

\* C2, amended: an incident whose resolution timestamp is present and at least
\* 15 minutes earlier than its creation timestamp is linked to no page.
C2_InvertedByLeadLinksNothing ==
    Returned =>
        \A j \in 1..Len(incidents) :
            (incidents[j].resolvedAt # ZeroTime
             /\ incidents[j].resolvedAt <= incidents[j].createdAt - 15) => Unlinked(j)

\* a finished run with an incident resolved 15 minutes before its creation and a
\* page created before that resolution
C2_Witness ==
    /\ Returned
    /\ \E j \in 1..Len(incidents) : \E x \in 1..Len(pages) :
          /\ incidents[j].resolvedAt # ZeroTime
          /\ incidents[j].resolvedAt = incidents[j].createdAt - 15
          /\ pages[x].createdAt < incidents[j].resolvedAt
          /\ pages[x].createdAt # ZeroTime

\* C3: an incident whose search hit carries no resolution timestamp has the zero
\* resolution timestamp and is linked to zero pages, whatever the pages'
\* creation timestamps, the zero timestamp included.
C3_OpenIncidentLinksNothing ==
    (pc \in {"render", "done"} /\ outcome # "panic") =>
        \A j \in 1..Len(incidents) :
            ~ddIncidents.list[incidents[j].id].resolved.isSet =>
                incidents[j].resolvedAt = ZeroTime /\ Unlinked(j)

\* a finished run with an open incident, a page with the zero timestamp and a
\* page created after the incident
C3_Witness ==
    /\ Returned
    /\ \E j \in 1..Len(incidents) : \E x, y \in 1..Len(pages) :
          /\ ~ddIncidents.list[incidents[j].id].resolved.isSet
          /\ incidents[j].resolvedAt = ZeroTime
          /\ pages[x].createdAt = ZeroTime
          /\ pages[y].createdAt > incidents[j].createdAt

\* C8: the incident sections of the report are in non-decreasing order of
\* creation time, whatever the order of the service's answer.
C8_SectionsAscending ==
    Returned =>
        \A a, b \in 1..Len(report.sections) :
            a < b => report.sections[a].createdAt <= report.sections[b].createdAt

\* a report of two sections whose incidents the service returned latest first
C8_Witness ==
    /\ Returned
    /\ Len(report.sections) >= 2
    /\ \E a, b \in 1..Len(ddIncidents.list) :
          a < b /\ ddIncidents.list[a].created > ddIncidents.list[b].created

\* C9, as claimed: two incidents with equal creation timestamps appear in the
\* report in the order in which they were fetched (ids number the fetch order).
C9_EqualTimesKeepFetchOrder ==
    Returned =>
        \A a, b \in 1..Len(report.sections) :
            (a < b /\ report.sections[a].createdAt = report.sections[b].createdAt)
                => report.sections[a].id < report.sections[b].id

\* the pages that name the incident id, by their links
LinkedTo(id) ==
    {pages[x].link : x \in {y \in 1..Len(pages) :
                               \E z \in 1..Len(pages[y].incidentIDs) :
                                   pages[y].incidentIDs[z] = id}}

\* C10: within each incident section the linked pages are listed in the order in
\* which the pages were fetched (links number the fetch order), each linked page
\* exactly once.
C10_PagesInFetchOrderOnce ==
    Returned =>
        \A s \in 1..Len(report.sections) :
            LET lines == report.sections[s].pageLines
            IN /\ \A a, b \in 1..Len(lines) : a < b => lines[a].link < lines[b].link
               /\ {lines[a].link : a \in 1..Len(lines)} = LinkedTo(report.sections[s].id)

\* a report with a section that lists two pages
C10_Witness ==
    /\ Returned
    /\ \E s \in 1..Len(report.sections) : Len(report.sections[s].pageLines) >= 2

(***************************************************************************)
(* Titles: the replace rules and the raw titles vary; one incident          *)
(* (created 115, resolved 120), a page at 110 falls in its window and a     *)
(* page at 120 does not.                                                    *)
(***************************************************************************)
\* "/A/B/", "/B/C/", "/C/" and "/(/B/", whose pattern does not compile
RuleSamples ==
    {<<"/", "A", "/", "B", "/">>,
     <<"/", "B", "/", "C", "/">>,
     <<"/", "C", "/">>,
     <<"/", "(", "/", "B", "/">>}

\* "A", "[B]A" and "CC"
TitleSamples == {<<"A">>, <<"[", "B", "]", "A">>, <<"C", "C">>}

TitledPageShapes ==
    [title : TitleSamples, createdAt : {Date(110), Date(120)}, alerts : {NoAlerts}]

OneIncident ==
    [err |-> FALSE, list |-> Hits(<<[created |-> 115, resolved |-> SetAt(120)]>>)]

InitTitles ==
    /\ request \in {[BaseRequest EXCEPT !.Replace = r] :
                      r \in SeqsUpTo(RuleSamples, MaxRules)}
    /\ pdTeamDir = BaseTeamDir
    /\ ddIncidents = OneIncident
    /\ pdPages \in {[err |-> FALSE, list |-> RawPages(f)] :
                      f \in SeqsUpTo(TitledPageShapes, MaxPages)}
    /\ NoUpload
    /\ Started

SpecTitles == InitTitles /\ [][Next]_vars

\* the locals of the loop turn that kept the raw page with this link
TurnOf(link) ==
    CHOOSE e \in {locals[x] : x \in 1..Len(locals)} : e.raw = link /\ e.kept

\* every page bullet of the report, under an incident or under Other Pages
AllPageLines ==
    {report.otherPages[x] : x \in 1..Len(report.otherPages)}
    \cup UNION {{report.sections[s].pageLines[x] :
                    x \in 1..Len(report.sections[s].pageLines)} :
                s \in 1..Len(report.sections)}

\* C4, as claimed: every page title shown in the report, under an incident
\* section or under Other Pages, is the title the replace rules produced for that
\* page (as link() writes it), not the raw title.
C4_ReportShowsNormalizedTitles ==
    Returned =>
        \A l \in AllPageLines : l.title = linkDesc(TurnOf(l.link).title)

\* the identity order: the rules as the user listed them
Declared(n) == [j \in 1..n |-> j]

\* C5, as claimed: the title computed for a page is the result of applying the
\* replace rules in the order the user supplied them, each to the previous
\* rule's output; so it is the same on every run.
C5_RulesAppliedInDeclaredOrder ==
    \A x \in 1..Len(locals) :
        locals[x].normalized =>
            locals[x].title =
                ApplyRules(pdPages.list[locals[x].raw].title,
                           [j \in 1..Len(request.Replace) |->
                               ParseRule(request.Replace[j])],
                           Declared(Len(request.Replace)), 1)

\* some rule of the request has a pattern that does not compile
BadRule ==
    \E j \in 1..Len(request.Replace) : ~Compiles(ParseRule(request.Replace[j]).re)

\* C6, as claimed: a replace rule whose pattern does not compile makes the run end
\* with a reported error (not a crash, not a silent skip), before any request
\* to the incident service or to the paging service.
C6_BadRuleFailsBeforeAnyRequest ==
    (BadRule /\ pc = "done") =>
        outcome = "error" /\ ddCalls = 0 /\ pdCalls = 0

(***************************************************************************)
(* Tags: the tag filter and the alerts of a page vary; the alert lookup of  *)
(* a page may fail, and then it delivers no alert.                          *)
(***************************************************************************)
\* "a" and "b"
TagSamples == {<<"a">>, <<"b">>}

Tagged(str) == [details |-> "map", tags |-> "string", tagsString |-> str]

\* an alert without details, and alerts tagged "a", "b" and "a, b"
AlertSamples ==
    {[details |-> "absent", tags |-> "absent", tagsString |-> <<>>],
     Tagged(<<"a">>),
     Tagged(<<"b">>),
     Tagged(<<"a", ",", " ", "b">>)}

AlertAnswers ==
    {[err |-> TRUE, list |-> <<>>]}
    \cup {[err |-> FALSE, list |-> l] : l \in SeqsUpTo(AlertSamples, MaxAlerts)}

TaggedPageShapes ==
    [title : {<<"A">>}, createdAt : {Date(110)}, alerts : AlertAnswers]

InitTags ==
    /\ request \in {[BaseRequest EXCEPT !.TagFilters = t] :
                      t \in SeqsUpTo(TagSamples, MaxFilters)}
    /\ pdTeamDir = BaseTeamDir
    /\ ddIncidents = OneIncident
    /\ pdPages \in {[err |-> FALSE, list |-> RawPages(f)] :
                      f \in SeqsUpTo(TaggedPageShapes, MaxTagPages)}
    /\ NoUpload
    /\ Started

SpecTags == InitTags /\ [][Next]_vars

\* some single alert of the raw page p carries every required token
SomeAlertHasAll(p) ==
    \E a \in 1..Len(p.alerts.list) :
        LET t == getTagsFromPagerdutyAlert(p.alerts.list[a])
        IN /\ ~t.nil
           /\ \A j \in 1..Len(request.TagFilters) : request.TagFilters[j] \in t.set

\* C7: with an empty tag filter every page is admitted; with a non-empty filter
\* a page is admitted if and only if some single alert of the page carries
\* every required token; an admitted page is the one fetchPages goes on with.
C7_TagFilterAdmission ==
    \A x \in 1..Len(locals) :
        LET p == pdPages.list[locals[x].raw]
            admitted == locals[x].matched /\ ~locals[x].tagErr
        IN /\ Len(request.TagFilters) = 0 => admitted
           /\ Len(request.TagFilters) > 0 => (admitted <=> SomeAlertHasAll(p))
           /\ locals[x].normalized <=> admitted

\* a page left out although its two alerts together carry both required tokens
C7_Witness ==
    /\ pc = "done"
    /\ Len(request.TagFilters) = 2
    /\ request.TagFilters[1] # request.TagFilters[2]
    /\ \E x \in 1..Len(locals) :
          LET p == pdPages.list[locals[x].raw]
          IN /\ Len(p.alerts.list) = 2
             /\ \A j \in 1..2 : \E a \in 1..2 :
                    request.TagFilters[j] \in getTagsFromPagerdutyAlert(p.alerts.list[a]).set
             /\ ~SomeAlertHasAll(p)
             /\ ~locals[x].matched
             /\ ~locals[x].kept


\* ---------------------------------------------------------------------------
\* Claims on the linking of one page to several incidents and on Other Pages,
\* checked under Spec
\* ---------------------------------------------------------------------------

\* the incidents whose window holds the page x, by the times alone
HoldersOf(x) ==
    {j \in 1..Len(incidents) :
        /\ incidents[j].createdAt - 15 < pages[x].createdAt
        /\ pages[x].createdAt < incidents[j].resolvedAt}

SectionLists(s, link) ==
    \E a \in 1..Len(report.sections[s].pageLines) :
        report.sections[s].pageLines[a].link = link

OtherPagesLists(link) ==
    \E a \in 1..Len(report.otherPages) : report.otherPages[a].link = link

\* C11: a page that falls inside the windows of two or more incidents is linked
\* to all of them: it is listed under the section of every such incident, and it
\* is not listed under Other Pages.
C11_PageListedUnderEveryHolder ==
    Returned =>
        \A x \in 1..Len(pages) :
            /\ \A j \in HoldersOf(x) :
                  /\ report.sections[j].id = incidents[j].id
                  /\ SectionLists(j, pages[x].link)
                  /\ InIDsOf(x, j)
            /\ HoldersOf(x) # {} => ~OtherPagesLists(pages[x].link)

\* a report where one page is listed under the sections of two incidents
C11_Witness ==
    /\ Returned
    /\ \E x \in 1..Len(pages) :
          /\ Cardinality(HoldersOf(x)) = 2
          /\ \A j \in HoldersOf(x) : SectionLists(j, pages[x].link)
          /\ ~OtherPagesLists(pages[x].link)

\* C12: Other Pages lists exactly the retained pages that no incident links,
\* each once, in the order in which the pages were fetched (links number the
\* fetch order).
C12_OtherPagesAreTheUnlinked ==
    Returned =>
        /\ \A a, b \in 1..Len(report.otherPages) :
              a < b => report.otherPages[a].link < report.otherPages[b].link
        /\ {report.otherPages[a].link : a \in 1..Len(report.otherPages)}
             = {pages[x].link : x \in {y \in 1..Len(pages) :
                                          \A j \in 1..Len(incidents) : ~InPagesOf(j, y)}}

\* a report of two pages, one linked to an incident and the other under Other Pages
C12_Witness ==
    /\ Returned
    /\ Len(pages) = 2
    /\ Len(report.otherPages) = 1
    /\ \E j \in 1..Len(incidents) : InPagesOf(j, 1) \/ InPagesOf(j, 2)


\* ---------------------------------------------------------------------------
\* Failures of the per-page requests: each raw page may fail its alert lookup,
\* its notes request or its log-entry request; the tag filter is empty or "a".
\* ---------------------------------------------------------------------------
FailingPageShapes ==
    [title : {<<"A">>},
     createdAt : {Date(110), Date(120)},
     alerts : {[err |-> TRUE, list |-> <<>>],
               [err |-> FALSE, list |-> <<Tagged(<<"a">>)>>],
               NoAlerts},
     notesErr : BOOLEAN,
     logsErr : BOOLEAN]

FailingRawPages(f) ==
    [j \in 1..Len(f) |->
        [RawPages(f)[j] EXCEPT !.notesErr = f[j].notesErr, !.logsErr = f[j].logsErr]]

InitErrors ==
    /\ request \in {[BaseRequest EXCEPT !.TagFilters = t] : t \in {<<>>, <<<<"a">>>>}}
    /\ pdTeamDir = BaseTeamDir
    /\ ddIncidents = OneIncident
    /\ pdPages \in {[err |-> FALSE, list |-> FailingRawPages(f)] :
                      f \in SeqsUpTo(FailingPageShapes, MaxPages)}
    /\ NoUpload
    /\ Started

SpecErrors == InitErrors /\ [][Next]_vars

\* the raw page of the turn x of the loop of fetchPages
RawOf(x) == pdPages.list[locals[x].raw]

\* the raw page p passes the tag filter, by the service's answers alone
PassesFilter(p) ==
    \/ Len(request.TagFilters) = 0
    \/ ~p.alerts.err /\ SomeAlertHasAll(p)

TagsFailed(p) == Len(request.TagFilters) > 0 /\ p.alerts.err
NotesFailed(p) == PassesFilter(p) /\ p.notesErr
LogsFailed(p) == PassesFilter(p) /\ ~p.notesErr /\ p.logsErr

PagesHas(link) == \E y \in 1..Len(pages) : pages[y].link = link

ReportLists(link) ==
    \/ OtherPagesLists(link)
    \/ \E s \in 1..Len(report.sections) : SectionLists(s, link)

\* the run ended, without a document, in the turn x
AbortedAt(x) == x = Len(locals) /\ pc = "done" /\ outcome # "ok"

\* the turns that wrote a diagnostic
Diagnosed == {x \in 1..Len(locals) : TagsFailed(RawOf(x)) \/ NotesFailed(RawOf(x))}

\* every raw page had its turn, and those without a failure are retained
AllProcessed ==
    /\ Len(locals) = Len(pdPages.list)
    /\ \A r \in 1..Len(pdPages.list) :
          LET p == pdPages.list[r]
          IN (PassesFilter(p) /\ ~p.notesErr /\ ~p.logsErr) => PagesHas(p.link)


\* C13 as stated: if fetching the notes of one page fails, that page is still
\* included in the report (with its notes missing). The code skips the page.
C13_NotesFailureKeepsPage ==
    \A x \in 1..Len(locals) :
        NotesFailed(RawOf(x)) =>
            /\ PagesHas(RawOf(x).link)
            /\ Returned => ReportLists(RawOf(x).link)

\* C13, amended: if fetching the notes of one page fails, that page is skipped
\* (it is not retained and appears nowhere in the report), one diagnostic is
\* written for it, the run does not end in that turn, and the run that returns
\* has given every raw page its turn and retained those without a failure.
C13_NotesFailureSkipsPage ==
    /\ \A x \in 1..Len(locals) :
          NotesFailed(RawOf(x)) =>
              /\ ~locals[x].kept
              /\ ~PagesHas(RawOf(x).link)
              /\ ~ReportLists(RawOf(x).link)
              /\ ~AbortedAt(x)
              /\ x \in Diagnosed
    /\ warnings = Cardinality(Diagnosed)
    /\ Returned => AllProcessed

\* a returned report that lacks a page whose notes request failed and lists the
\* page fetched after it
C13_Witness ==
    /\ Returned
    /\ Len(locals) = 2
    /\ NotesFailed(RawOf(1))
    /\ ~ReportLists(RawOf(1).link)
    /\ ReportLists(RawOf(2).link)
    /\ warnings = 1

\* C14 as stated: a failure to fetch the log entries of one page is
\* recoverable: the run does not crash in that turn, and the run that ends
\* returns a document after every raw page had its turn.
C14_LogFailureIsRecoverable ==
    (\E x \in 1..Len(locals) : LogsFailed(RawOf(x))) =>
        /\ outcome # "panic"
        /\ pc = "done" => Returned /\ Len(locals) = Len(pdPages.list)

\* C15: if the alert lookup of one page fails under a non-empty tag filter, only
\* that page is skipped, with one warning; the run does not end in that turn, a
\* run that ends without meeting a failed log-entry request returns a document,
\* and a run that returns has given every raw page its turn and retained those
\* without a failure.
C15_AlertFailureSkipsOnlyThatPage ==
    /\ \A x \in 1..Len(locals) :
          TagsFailed(RawOf(x)) =>
              /\ ~locals[x].kept
              /\ ~PagesHas(RawOf(x).link)
              /\ ~AbortedAt(x)
              /\ x \in Diagnosed
    /\ warnings = Cardinality(Diagnosed)
    /\ (pc = "done" /\ \A x \in 1..Len(locals) : ~LogsFailed(RawOf(x))) => Returned
    /\ Returned => AllProcessed

\* a returned report of two raw pages: the alert lookup of the first failed, the
\* second is listed
C15_Witness ==
    /\ Returned
    /\ Len(locals) = 2
    /\ TagsFailed(RawOf(1))
    /\ locals[1].tagErr
    /\ ~ReportLists(RawOf(1).link)
    /\ ReportLists(RawOf(2).link)
    /\ warnings = 1


\* ---------------------------------------------------------------------------
\* Malformed alert metadata: alerts without details, with details that are not
\* a map, without a tags key, with a tags value that is not a string (here the
\* list ["a"]), and alerts tagged "a" and "a, b".
\* ---------------------------------------------------------------------------
MalformedSamples ==
    {[details |-> "absent", tags |-> "absent", tagsString |-> <<>>],
     [details |-> "scalar", tags |-> "absent", tagsString |-> <<>>],
     [details |-> "map", tags |-> "absent", tagsString |-> <<>>],
     [details |-> "map", tags |-> "nonstring", tagsString |-> <<"a">>]}

MixedPageShapes ==
    [title : {<<"A">>},
     createdAt : {Date(110)},
     alerts : {[err |-> FALSE, list |-> l] :
                 l \in SeqsUpTo(MalformedSamples
                                \cup {Tagged(<<"a">>), Tagged(<<"a", ",", " ", "b">>)},
                                MaxAlerts)}]

InitMalformed ==
    /\ request \in {[BaseRequest EXCEPT !.TagFilters = t] :
                      t \in {<<>>, <<<<"a">>>>, <<<<"a">>, <<"b">>>>}}
    /\ pdTeamDir = BaseTeamDir
    /\ ddIncidents = OneIncident
    /\ pdPages \in {[err |-> FALSE, list |-> RawPages(f)] :
                      f \in SeqsUpTo(MixedPageShapes, MaxTagPages)}
    /\ NoUpload
    /\ Started

SpecMalformed == InitMalformed /\ [][Next]_vars

\* the alert carries a details map whose tags value is a string
WellFormed(alert) == alert.details = "map" /\ alert.tags = "string"

\* C16: an alert whose details are missing or not a map, that has no tags key,
\* or whose tags value is not a string contributes no tags and raises no error:
\* under a non-empty filter a page is admitted only through a well-formed alert
\* that carries every required token, a page all of whose alerts are malformed
\* (or that has no alerts) is not admitted, and no diagnostic is written.
C16_MalformedAlertsCarryNoTags ==
    /\ warnings = 0
    /\ outcome \in {"none", "ok"}
    /\ \A x \in 1..Len(locals) :
          LET alerts == RawOf(x).alerts.list
              good == {a \in 1..Len(alerts) : WellFormed(alerts[a])}
          IN Len(request.TagFilters) > 0 =>
                /\ ~locals[x].tagErr
                /\ locals[x].matched <=>
                      \E a \in good :
                          \A j \in 1..Len(request.TagFilters) :
                              request.TagFilters[j]
                                  \in getTagsFromPagerdutyAlert(alerts[a]).set
                /\ good = {} => ~locals[x].matched /\ ~locals[x].kept
                                 /\ ~PagesHas(RawOf(x).link)

\* a returned run that left out, under the filter "a", a page with two malformed
\* alerts, one of them with the non-string tags value ["a"]
C16_Witness ==
    /\ Returned
    /\ request.TagFilters = <<<<"a">>>>
    /\ Len(locals) = 1
    /\ Len(RawOf(1).alerts.list) = 2
    /\ RawOf(1).alerts.list[1].details = "scalar"
    /\ RawOf(1).alerts.list[2].tags = "nonstring"
    /\ ~locals[1].matched
    /\ ~ReportLists(RawOf(1).link)
    /\ warnings = 0


\* ---------------------------------------------------------------------------
\* The request's dates and teams: since and until unparseable or one of two
\* days, up to MaxTeams teams, a team directory that lists any of them or fails.
\* ---------------------------------------------------------------------------
DateSamples == {[ok |-> FALSE, at |-> ZeroTime], Date(1), Date(2)}

TeamSamples == {"ops", "db"}

TeamDirs == [err : BOOLEAN, names : SUBSET {"Ops", "Db"}]

OnePage ==
    [err |-> FALSE,
     list |-> RawPages(<<[title |-> <<"A">>, createdAt |-> Date(110),
                          alerts |-> NoAlerts]>>)]

InitRequest ==
    /\ request \in {[BaseRequest EXCEPT !.Teams = t, !.Since = s, !.Until = u] :
                      t \in SeqsUpTo(TeamSamples, MaxTeams),
                      s \in DateSamples, u \in DateSamples}
    /\ pdTeamDir \in TeamDirs
    /\ ddIncidents = OneIncident
    /\ pdPages = OnePage
    /\ NoUpload
    /\ Started

SpecRequest == InitRequest /\ [][Next]_vars

BadDates ==
    \/ ~request.Since.ok
    \/ ~request.Until.ok
    \/ request.Until.at < request.Since.at

\* C19: an unparseable since or until date, or an until date earlier than the
\* since date, makes Generate return an error before any request to the incident
\* service or the paging service; equal since and until dates are accepted, the
\* run going on to fetch the incidents.
C19_BadDatesFailBeforeAnyFetch ==
    /\ BadDates =>
          /\ pc \in {"parseDates", "done"}
          /\ pc = "done" => outcome = "error"
          /\ ddCalls = 0 /\ pdCalls = 0
          /\ report = EmptyReport
    /\ (request.Since.ok /\ request.Until = request.Since /\ pc # "parseDates") =>
          pc = "fetchIncidents" \/ ddCalls = 1

\* a run refused for an until date earlier than its since date
C19_Witness ==
    /\ pc = "done"
    /\ outcome = "error"
    /\ request.Since = Date(2)
    /\ request.Until = Date(1)
    /\ ddCalls = 0 /\ pdCalls = 0

\* the team name resolves, by the directory alone
Resolvable(name) ==
    /\ ~pdTeamDir.err
    /\ \/ name = "ops" /\ "Ops" \in pdTeamDir.names
       \/ name = "db" /\ "Db" \in pdTeamDir.names

Unresolved == {j \in 1..Len(request.Teams) : ~Resolvable(request.Teams[j])}

PastGetTeamIds == pc \in {"listIncidents", "fetchPage", "correlate", "render"} \/ Returned

\* C20 as stated: if any configured team name cannot be resolved, the run
\* aborts: Generate returns an error and no document is produced.
C20_AnyUnresolvedTeamAborts ==
    Unresolved # {} => ~PastGetTeamIds

\* C20, amended: if none of the configured team names can be resolved, the run
\* aborts with an error and no document; if only some cannot, one warning is
\* written and the run goes on to a document with the teams that were resolved.
C20_NoResolvedTeamAborts ==
    /\ Cardinality(Unresolved) = Len(request.Teams) =>
          /\ ~PastGetTeamIds
          /\ pc = "done" => outcome = "error"
          /\ report = EmptyReport
    /\ (Cardinality(Unresolved) < Len(request.Teams) /\ ~BadDates) =>
          /\ pc = "done" => Returned
          /\ PastGetTeamIds => warnings = (IF Unresolved # {} THEN 1 ELSE 0)

\* a returned document for two teams of which one could not be resolved
C20_Witness ==
    /\ Returned
    /\ Len(request.Teams) = 2
    /\ Cardinality(Unresolved) = 1
    /\ warnings = 1
    /\ report.totalPages = 1


(***************************************************************************)
(* The document as text, and main's handling of it. A text is a sequence   *)
(* of tokens: the line break, the literal pieces of the front-matter       *)
(* pattern ("---", "title: "), words, and the characters of page titles.   *)
(* Incident fields the model does not carry (severity, title, commander,   *)
(* root cause, summary, link) are left empty; pages carry no responders    *)
(* and no notes.                                                            *)
(***************************************************************************)
NL == "\n"

filloutPlaceholder == "  _TODO: please fill out_"

\* strings.Title on one word: its first letter in upper case
TitleWord(w) == IF w = "ops" THEN "Ops" ELSE IF w = "db" THEN "Db" ELSE w

\* strings.Title(s)
Title(text) == [j \in 1..Len(text) |-> TitleWord(text[j])]

\* strings.Join(elems, sep)
RECURSIVE Join(_, _)
Join(elems, sep) ==
    IF Len(elems) = 0 THEN <<>>
    ELSE IF Len(elems) = 1 THEN <<elems[1]>>
    ELSE <<elems[1], sep>> \o Join(Tail(elems), sep)

\* the text of a date string of the request, named by the day it stands for
DateText(str) == IF str.ok THEN ToString(str.at) ELSE "?"

\* title := strings.Title(fmt.Sprintf("%s On-Call Report %s", ...))
ReportTitle(req) ==
    Title(Join(req.Teams, ", ") \o <<" On-Call Report ", DateText(req.Until)>>)

\* the three WriteString calls that open the document
FrontMatter(req) ==
    <<"---", NL, "title: ">> \o ReportTitle(req) \o <<NL, "---", NL>>

heading(level, header) ==
    <<IF level = 3 THEN "### " ELSE "#### ">> \o header \o <<NL, NL>>

br == <<NL>>

para(p) == p \o <<NL, NL>>

unordered(level, li) ==
    <<IF level = 1 THEN "- " ELSE IF level = 2 THEN "  - " ELSE "    - ">>
    \o li \o <<NL>>

\* the bullet of a page line: md.unordered(1, link(time + " " + title, link))
PageBullet(l) ==
    unordered(1, <<"[", ToString(l.time), " ">> \o l.title
                 \o <<"](", ToString(l.link), ")">>)

RECURSIVE Flatten(_)
Flatten(texts) ==
    IF Len(texts) = 0 THEN <<>> ELSE Head(texts) \o Flatten(Tail(texts))

\* the text of one incident section
SectionText(sec) ==
    heading(3, <<"[", " | ", ToString(sec.id), " | ", " | ", ToString(sec.createdAt),
                 "](", ")">>)
    \o heading(4, <<"IC: ">>)
    \o heading(4, <<"Root cause">>) \o para(<<"  ">>)
    \o heading(4, <<"Summary">>) \o para(<<"  ">>)
    \o heading(4, <<"PagerDuty pages">>)
    \o Flatten([x \in 1..Len(sec.pageLines) |-> PageBullet(sec.pageLines[x])])
    \o br
    \o heading(4, <<"Action taken">>) \o para(<<filloutPlaceholder>>)
    \o heading(4, <<"Follow-up">>)
    \o unordered(1, <<"**Happened before/common theme**">>) \o para(<<filloutPlaceholder>>)
    \o unordered(1, <<"**How can we prevent it**">>) \o para(<<filloutPlaceholder>>)
    \o unordered(1, <<"**Runbooks**">>) \o para(<<filloutPlaceholder>>)
    \o unordered(1, <<"**Related PRs**">>) \o para(<<filloutPlaceholder>>)
    \o unordered(1, <<"**Action items**">>) \o para(<<filloutPlaceholder>>)

\* the text of one page under Other Pages
OtherPageText(l) ==
    PageBullet(l)
    \o unordered(2, <<"**Ack'ed by**: ">>)
    \o (IF Len(l.notes) # 0
        THEN unordered(2, <<"**Notes**:">>)
             \o Flatten([j \in 1..Len(l.notes) |-> unordered(3, l.notes[j])])
             \o br
        ELSE <<>>)
    \o unordered(2, <<"**Action taken**: ", filloutPlaceholder>>)
    \o unordered(2, <<"**Follow-up**: ", filloutPlaceholder>>)

\* md.String(): the summary line, the sections, then Other Pages
MarkdownBody(req, rep) ==
    para(<<"Report for ", DateText(req.Since), " - ", DateText(req.Until),
           ": total incidents - ", ToString(rep.totalIncidents),
           ", total pages - ", ToString(rep.totalPages)>>)
    \o Flatten([x \in 1..Len(rep.sections) |-> SectionText(rep.sections[x])])
    \o heading(3, <<"Other Pages">>)
    \o Flatten([x \in 1..Len(rep.otherPages) |-> OtherPageText(rep.otherPages[x])])

\* the string Generate returns
GenerateContent(req, rep) == FrontMatter(req) \o MarkdownBody(req, rep)


\* the pattern ---\ntitle: (.*)\n---\n matched at the token i of content: the
\* index of the last token of the match, 0 when there is none. The group (.*)
\* holds no line break, so it ends at the first line break after "title: ".
MatchEnd(content, i) ==
    IF /\ i + 2 <= Len(content)
       /\ content[i] = "---" /\ content[i + 1] = NL /\ content[i + 2] = "title: "
    THEN LET e == IndexFrom(content, NL, i + 3)
         IN IF /\ e # 0
               /\ e + 2 <= Len(content)
               /\ content[e + 1] = "---" /\ content[e + 2] = NL
            THEN e + 2 ELSE 0
    ELSE 0

\* the start of the leftmost match at or after the token i, 0 for none
FindMatch(content, i) ==
    LET starts == {j \in i..Len(content) : MatchEnd(content, j) # 0}
    IN IF starts = {} THEN 0
       ELSE CHOOSE j \in starts : \A h \in starts : j <= h

\* r.ReplaceAllString(content, ""): every match is removed, from the left
RECURSIVE ReplaceAllMatches(_, _)
ReplaceAllMatches(content, i) ==
    LET m == FindMatch(content, i)
    IN IF m = 0 THEN SubSeq(content, i, Len(content))
       ELSE SubSeq(content, i, m - 1)
            \o ReplaceAllMatches(content, MatchEnd(content, m) + 1)

\* mutant of pruneMarkdownTitle: the title is the whole match, matches[0]
pruneMarkdownTitle_WholeMatch(content) ==
    LET i == FindMatch(content, 1)
    IN [content |-> ReplaceAllMatches(content, 1),
        title |-> IF i = 0 THEN <<>> ELSE SubSeq(content, i, MatchEnd(content, i))]

pruneMarkdownTitle(content) ==
    LET i == FindMatch(content, 1)
    IN [content |-> ReplaceAllMatches(content, 1),
        title |-> IF i = 0 THEN <<>>
                  ELSE SubSeq(content, i + 3, MatchEnd(content, i) - 3)]

\* convertMarkdown(s): the HTML goldmark renders from s, or its error
convertMarkdown(s, conf) ==
    IF conf.convertErr THEN [err |-> TRUE, html |-> <<>>]
    ELSE [err |-> FALSE, html |-> [xhtmlOf |-> s]]

\* time.Now().Format(YYYYMMDD)
Today == "2024-01-05"

\* mutant of Upload: the extracted title is used even when it is empty
Upload_NoFallback(content, conf) ==
    LET pruned == pruneMarkdownTitle(content)
        converted == convertMarkdown(pruned.content, conf)
        newPage == [title |-> pruned.title, body |-> converted.html]
    IN IF converted.err
       THEN [err |-> "error converting markdown", posts |-> <<>>]
       ELSE IF conf.transportErr
       THEN [err |-> "error making request", posts |-> <<newPage>>]
       ELSE IF conf.status # StatusOK
       THEN [err |-> "failed to create page", posts |-> <<newPage>>]
       ELSE [err |-> "", posts |-> <<newPage>>]

\* mutant of Upload: a request that fails is sent a second time
Upload_Retry(content, conf) ==
    LET pruned == pruneMarkdownTitle(content)
        converted == convertMarkdown(pruned.content, conf)
        title == IF pruned.title = <<>> THEN <<"On-Call Report ", Today>>
                 ELSE pruned.title
        newPage == [title |-> title, body |-> converted.html]
    IN IF converted.err
       THEN [err |-> "error converting markdown", posts |-> <<>>]
       ELSE IF conf.transportErr
       THEN [err |-> "error making request", posts |-> <<newPage, newPage>>]
       ELSE IF conf.status # StatusOK
       THEN [err |-> "failed to create page", posts |-> <<newPage, newPage>>]
       ELSE [err |-> "", posts |-> <<newPage>>]

\* Upload(request): its error ("" for nil) and the requests it made
Upload(content, conf) ==
    LET pruned == pruneMarkdownTitle(content)
        converted == convertMarkdown(pruned.content, conf)
        title == IF pruned.title = <<>> THEN <<"On-Call Report ", Today>>
                 ELSE pruned.title
        newPage == [title |-> title, body |-> converted.html]
    IN IF converted.err
       THEN [err |-> "error converting markdown", posts |-> <<>>]
       ELSE IF conf.transportErr
       THEN [err |-> "error making request", posts |-> <<newPage>>]
       ELSE IF conf.status # StatusOK
       THEN [err |-> "failed to create page", posts |-> <<newPage>>]
       ELSE [err |-> "", posts |-> <<newPage>>]

\* main, from the return of Generate on: exit on its error, else upload the
\* content when a subdomain was given, else print it
Main ==
    /\ pc = "done"
    /\ pc' = "exited"
    /\ LET content == GenerateContent(request, report)
           u == Upload(content, confluence)
       IN IF outcome = "panic"
          THEN /\ exitStatus' = "crashed"
               /\ UNCHANGED <<stdout, posted, exitMsg, markdownContent>>
          ELSE IF outcome = "error"
          THEN /\ exitStatus' = "failed"
               /\ exitMsg' = <<"error generating report">>
               /\ UNCHANGED <<stdout, posted, markdownContent>>
          ELSE IF doUpload
          THEN /\ markdownContent' = content
               /\ posted' = posted \o u.posts
               /\ IF u.err # ""
                  THEN /\ exitStatus' = "failed"
                       /\ exitMsg' = <<"error uploading report: ", u.err>>
                       /\ stdout' = stdout
                  ELSE /\ exitStatus' = "returned"
                       /\ exitMsg' = exitMsg
                       /\ stdout' = Append(stdout, <<"Report uploaded successfully">>)
          ELSE /\ stdout' = Append(stdout, content)
               /\ exitStatus' = "returned"
               /\ UNCHANGED <<posted, exitMsg, markdownContent>>
    /\ UNCHANGED <<request, ddIncidents, pdTeamDir, pdPages, outcome, ddCalls, pdCalls,
                   warnings, pagerdutyTeams, incidents, regexReplace, k, locals, pages,
                   ci, report, doUpload, confluence, lookupVars>>

NextMain == Next \/ Main

\* The whole program: up to MaxTeams teams, two end dates, up to MaxPages pages,
\* with and without publishing, the conversion and the publishing service
\* answering in every way.
ConfluenceAnswers ==
    [convertErr : BOOLEAN, transportErr : BOOLEAN, status : {StatusOK, 500}]

PlainPageShapes ==
    [title : {<<"A">>}, createdAt : {Date(110), Date(120)}, alerts : {NoAlerts}]

InitMain ==
    /\ request \in {[BaseRequest EXCEPT !.Teams = t, !.Until = u] :
                      t \in SeqsUpTo(TeamSamples, MaxTeams), u \in {Date(2), Date(3)}}
    /\ pdTeamDir = [err |-> FALSE, names |-> {"Ops", "Db"}]
    /\ ddIncidents = OneIncident
    /\ pdPages \in {[err |-> FALSE, list |-> RawPages(f)] :
                      f \in SeqsUpTo(PlainPageShapes, MaxPages)}
    /\ doUpload \in BOOLEAN
    /\ confluence \in ConfluenceAnswers
    /\ Started

SpecMain == InitMain /\ [][NextMain]_vars

\* Generate returned a document and main went on
Generated == pc = "exited" /\ outcome = "ok"

\* C17: round trip of the title: for every team list and end date,
\* pruneMarkdownTitle applied to the document Generate produced returns as title
\* exactly the title Generate wrote into the front-matter block; it is the title
\* of the page Upload sends.
C17_TitleRoundTrip ==
    Generated =>
        /\ pruneMarkdownTitle(GenerateContent(request, report)).title
             = ReportTitle(request)
        /\ \A x \in 1..Len(posted) : posted[x].title = ReportTitle(request)

\* an upload for two teams that sent the page under the title Generate wrote
C17_Witness ==
    /\ Generated
    /\ Len(request.Teams) = 2
    /\ Len(posted) = 1
    /\ posted[1].title = <<"Ops", ", ", "Db", " On-Call Report ", "3">>

\* C18 as stated: when publishing is requested and the publish step fails
\* (conversion failure, transport error, or a response other than 200), the
\* generated document is still printed, and only the publish step is reported
\* as failed.
C18_DocumentEmittedWhenPublishFails ==
    (Generated /\ doUpload /\ exitMsg # <<>>) =>
        /\ \E x \in 1..Len(stdout) : stdout[x] = GenerateContent(request, report)
        /\ exitMsg[1] = "error uploading report: "


\* the publish step failed: the conversion, the transport or the answer
PublishFails ==
    confluence.convertErr \/ confluence.transportErr \/ confluence.status # StatusOK

\* C21: Upload makes at most one request to the publish endpoint; a transport
\* error or an answer other than 200 is returned as an error after that one
\* request, never retried; a conversion failure is returned as an error without
\* any request; without an upload no request is made at all.
C21_AtMostOneRequestNoRetry ==
    /\ Len(posted) <= 1
    /\ ~doUpload => posted = <<>>
    /\ (Generated /\ doUpload) =>
          /\ confluence.convertErr => posted = <<>>
          /\ ~confluence.convertErr => Len(posted) = 1
          /\ PublishFails <=> exitStatus = "failed"
          /\ PublishFails => exitMsg[1] = "error uploading report: "

\* an upload answered with a status other than 200: one request, then the error
C21_Witness ==
    /\ Generated
    /\ doUpload
    /\ ~confluence.convertErr /\ ~confluence.transportErr
    /\ confluence.status # StatusOK
    /\ Len(posted) = 1
    /\ exitStatus = "failed"


\* ---------------------------------------------------------------------------
\* The request's PdTeams: up to MaxTeams names of the paging service's teams,
\* in lower or mixed case.
\* ---------------------------------------------------------------------------
PdTeamSamples == {"Ops", "ops", "Db"}

InitPdTeams ==
    /\ request \in {[BaseRequest EXCEPT !.PdTeams = t] :
                      t \in SeqsUpTo(PdTeamSamples, MaxTeams)}
    /\ pdTeamDir = [err |-> FALSE, names |-> {"Ops", "Db"}]
    /\ ddIncidents = OneIncident
    /\ pdPages \in {[err |-> FALSE, list |-> RawPages(f)] :
                      f \in SeqsUpTo(PlainPageShapes, MaxPages)}
    /\ NoUpload
    /\ Started

SpecPdTeams == InitPdTeams /\ [][Next]_vars

\* C22 as stated: Generate treats its request as immutable: no step of Generate
\* changes a field of the caller's request value, the elements of Teams and
\* PdTeams included.
C22_RequestNeverChanges == [][request' = request]_vars


\* ---------------------------------------------------------------------------
\* Frame of correlation and rendering, checked under Spec
\* ---------------------------------------------------------------------------

\* the incidents, and the pages, without their link collections
IncidentsLessLinks(incs) == [j \in 1..Len(incs) |-> [incs[j] EXCEPT !.pages = <<>>]]

PagesLessLinks(pgs) == [x \in 1..Len(pgs) |-> [pgs[x] EXCEPT !.incidentIDs = <<>>]]

\* a step taken from correlation or rendering keeps everything but the links
OnlyLinksChange ==
    pc \in {"correlate", "render"} =>
        /\ IncidentsLessLinks(incidents') = IncidentsLessLinks(incidents)
        /\ PagesLessLinks(pages') = PagesLessLinks(pages)

\* C23: a step of correlation or rendering changes only an incident's linked
\* pages and a page's linked incident IDs: every other field of every incident
\* and of every page, and the order of both lists, is left as the fetch gave it.
C23_OnlyLinksChange == [][OnlyLinksChange]_vars

\* a returned run of two incidents and two pages in which a page was linked
C23_Witness ==
    /\ Returned
    /\ Len(incidents) = 2
    /\ Len(pages) = 2
    /\ \E j \in 1..2 : Len(incidents[j].pages) > 0
    /\ \E x \in 1..2 : Len(pages[x].incidentIDs) > 0


(***************************************************************************)
(* Upload called on any document: an optional leading front-matter block    *)
(* (its title possibly empty), then up to MaxLines lines that may spell a   *)
(* block of their own, the last line with or without its line break.        *)
(***************************************************************************)
MaxLines == 3

Block(title) == <<"---", NL, "title: ">> \o title \o <<NL, "---", NL>>

LeadSamples == {<<>>, Block(<<"T">>), Block(<<>>)}

LineSamples == {<<"x">>, <<"---">>, <<"title: ", "U">>, <<"x", "---">>}

\* the lines, each ended by a line break, the last one only if closed
Lines(ls, closed) ==
    LET all == Flatten([j \in 1..Len(ls) |-> ls[j] \o <<NL>>])
    IN IF closed \/ Len(ls) = 0 THEN all ELSE SubSeq(all, 1, Len(all) - 1)

DocSamples ==
    {lead \o Lines(ls, closed) :
        lead \in LeadSamples, ls \in SeqsUpTo(LineSamples, MaxLines), closed \in BOOLEAN}

\* report.Upload(request), called with the content it was given
CallUpload ==
    /\ pc = "upload"
    /\ pc' = "uploaded"
    /\ LET u == Upload(markdownContent, confluence)
       IN /\ posted' = posted \o u.posts
          /\ exitStatus' = IF u.err # "" THEN "failed" ELSE "returned"
          /\ exitMsg' = IF u.err # "" THEN <<u.err>> ELSE exitMsg
    /\ UNCHANGED <<request, ddIncidents, pdTeamDir, pdPages, outcome, ddCalls, pdCalls,
                   warnings, pagerdutyTeams, incidents, regexReplace, k, locals, pages,
                   ci, report, doUpload, confluence, stdout, markdownContent,
                   lookupVars>>

NextUpload == CallUpload

InitUpload ==
    /\ request = BaseRequest
    /\ pdTeamDir = BaseTeamDir
    /\ ddIncidents = OneIncident
    /\ pdPages = OnePage
    /\ pc = "upload"
    /\ outcome = "none"
    /\ ddCalls = 0 /\ pdCalls = 0 /\ warnings = 0
    /\ pagerdutyTeams = <<>> /\ incidents = <<>> /\ regexReplace = <<>>
    /\ k = 1 /\ locals = <<>> /\ pages = <<>> /\ ci = 1
    /\ report = EmptyReport
    /\ doUpload = TRUE
    /\ confluence \in {Accepting, [Accepting EXCEPT !.status = 500]}
    /\ stdout = <<>> /\ posted = <<>>
    /\ exitStatus = "running" /\ exitMsg = <<>>
    /\ markdownContent \in DocSamples
    /\ NoLookup

SpecUpload == InitUpload /\ [][NextUpload]_vars

\* the front-matter blocks of a text, by their first and last token: "---", a
\* line break, "title: ", a title without a line break, a line break, "---", a
\* line break
BlocksOf(text) ==
    {b \in (1..Len(text)) \X (1..Len(text)) :
        /\ b[1] + 5 <= b[2]
        /\ text[b[1]] = "---" /\ text[b[1] + 1] = NL /\ text[b[1] + 2] = "title: "
        /\ \A j \in (b[1] + 3)..(b[2] - 3) : text[j] # NL
        /\ text[b[2] - 2] = NL /\ text[b[2] - 1] = "---" /\ text[b[2]] = NL}

TitleOfBlock(text, b) == SubSeq(text, b[1] + 3, b[2] - 3)

\* the title of the leftmost block, <<>> when the text has no block
LeftmostTitle(text) ==
    IF BlocksOf(text) = {} THEN <<>>
    ELSE TitleOfBlock(text, CHOOSE b \in BlocksOf(text) :
                                \A c \in BlocksOf(text) : b[1] <= c[1])

\* C24: Upload publishes under the title extracted from the document's
\* front-matter block whenever a (non-empty) title can be extracted, and under
\* the fallback title "On-Call Report <current date>" exactly when none can.
C24_TitleOrFallback ==
    (pc = "uploaded" /\ Len(posted) = 1) =>
        /\ LeftmostTitle(markdownContent) # <<>> =>
              posted[1].title = LeftmostTitle(markdownContent)
        /\ LeftmostTitle(markdownContent) = <<>> <=>
              posted[1].title = <<"On-Call Report ", Today>>

\* an upload of a document whose only block has an empty title, published
\* under the fallback title
C24_Witness ==
    /\ pc = "uploaded"
    /\ Len(posted) = 1
    /\ BlocksOf(markdownContent) # {}
    /\ LeftmostTitle(markdownContent) = <<>>
    /\ posted[1].title = <<"On-Call Report ", Today>>

\* the leading block of a text, if it starts with one
LeadingBlocks(text) == {b \in BlocksOf(text) : b[1] = 1}

\* C29 as stated: pruneMarkdownTitle removes only the front-matter block at the
\* start of the document: the body Upload converts is the input without that
\* single leading block, every later token unchanged, also when later text
\* spells a block of its own; the title is the one of the leading block.
C29_OnlyLeadingBlockRemoved ==
    (pc = "uploaded" /\ Len(posted) = 1) =>
        /\ \A b \in LeadingBlocks(markdownContent) :
              /\ posted[1].body.xhtmlOf
                   = SubSeq(markdownContent, b[2] + 1, Len(markdownContent))
              /\ TitleOfBlock(markdownContent, b) # <<>> =>
                    posted[1].title = TitleOfBlock(markdownContent, b)
        /\ LeadingBlocks(markdownContent) = {} =>
              posted[1].body.xhtmlOf = markdownContent


\* ---------------------------------------------------------------------------
\* Notes: up to MaxTagPages pages, inside or outside the incident's window,
\* each with up to MaxNotes notes whose author is fetched or not.
\* ---------------------------------------------------------------------------
MaxNotes == 2

NoteSamples ==
    [content : {<<"n">>, <<"m">>},
     user : {[err |-> TRUE, email |-> ""], [err |-> FALSE, email |-> "a@x"]}]

NotedPageShapes ==
    [title : {<<"A">>}, createdAt : {Date(110), Date(120)}, alerts : {NoAlerts},
     notes : SeqsUpTo(NoteSamples, MaxNotes)]

NotedRawPages(f) ==
    [j \in 1..Len(f) |-> [RawPages(f)[j] EXCEPT !.notes = f[j].notes]]

InitNotes ==
    /\ request = BaseRequest
    /\ pdTeamDir = BaseTeamDir
    /\ ddIncidents = OneIncident
    /\ pdPages \in {[err |-> FALSE, list |-> NotedRawPages(f)] :
                      f \in SeqsUpTo(NotedPageShapes, MaxTagPages)}
    /\ NoUpload
    /\ Started

SpecNotes == InitNotes /\ [][Next]_vars

\* the entry of Other Pages for the link
OtherEntries(link) ==
    {a \in 1..Len(report.otherPages) : report.otherPages[a].link = link}

\* C25: under Other Pages every note of a listed page is rendered, in order:
\* with its author's email in front when the author was fetched, with its
\* content alone when not; no note is dropped and no page is skipped because
\* an author could not be fetched (one diagnostic is written per such note).
C25_EveryNoteRendered ==
    Returned =>
        /\ \A r \in 1..Len(pdPages.list) :
              LET raw == pdPages.list[r]
              IN /\ PagesHas(raw.link)
                 /\ ReportLists(raw.link)
                 /\ \A a \in OtherEntries(raw.link) :
                       LET shown == report.otherPages[a].notes
                       IN /\ Len(shown) = Len(raw.notes)
                          /\ \A j \in 1..Len(raw.notes) :
                                shown[j] = IF raw.notes[j].user.err
                                           THEN raw.notes[j].content
                                           ELSE <<"**", raw.notes[j].user.email, "**: ">>
                                                \o raw.notes[j].content
        /\ warnings = Cardinality({n \in (1..Len(pdPages.list)) \X (1..MaxNotes + 1) :
                                     /\ n[2] <= Len(pdPages.list[n[1]].notes)
                                     /\ pdPages.list[n[1]].notes[n[2]].user.err})

\* a page under Other Pages with an attributed note and an anonymous one
C25_Witness ==
    /\ Returned
    /\ Len(report.otherPages) = 1
    /\ report.otherPages[1].notes = <<<<"**", "a@x", "**: ", "n">>, <<"m">>>>
    /\ warnings = 1


\* ---------------------------------------------------------------------------
\* Consistency of the two link collections and coverage of the report,
\* checked under Spec
\* ---------------------------------------------------------------------------

\* the sequence holds no entry twice
NoRepeat(seq) == \A a, b \in 1..Len(seq) : seq[a] = seq[b] => a = b

\* C26: after correlation, for every page P and incident I, P is among I's
\* linked pages if and only if I's id is among P's linked incident IDs, and
\* neither collection holds the same entry twice.
C26_LinksAgreeWithoutRepeats ==
    (pc \in {"render", "done"} /\ outcome # "error") =>
        /\ \A x \in 1..Len(pages) : \A j \in 1..Len(incidents) :
              InPagesOf(j, x) <=> InIDsOf(x, j)
        /\ \A j \in 1..Len(incidents) : NoRepeat(incidents[j].pages)
        /\ \A x \in 1..Len(pages) : NoRepeat(pages[x].incidentIDs)

\* a correlated run in which a page carries the ids of two incidents and an
\* incident links two pages
C26_Witness ==
    /\ pc = "render"
    /\ \E x \in 1..Len(pages) : Len(pages[x].incidentIDs) = 2
    /\ \E j \in 1..Len(incidents) : Len(incidents[j].pages) = 2


\* the number of bullets under Other Pages that carry the link
OtherPagesCount(link) ==
    Cardinality({a \in 1..Len(report.otherPages) : report.otherPages[a].link = link})

\* the distinct pages the report lists, in a section or under Other Pages
ListedLinks ==
    {report.otherPages[a].link : a \in 1..Len(report.otherPages)}
    \cup UNION {{report.sections[t].pageLines[a].link :
                    a \in 1..Len(report.sections[t].pageLines)} :
                t \in 1..Len(report.sections)}

\* C27: every page returned by fetchPages is listed in the report: either
\* under each incident it is linked to (at least one) and not under Other
\* Pages, or under Other Pages exactly once and under no incident; the total
\* page count of the summary line equals the number of distinct pages listed.
C27_EveryPageListedAndCounted ==
    Returned =>
        /\ \A x \in 1..Len(pages) :
              \/ /\ Len(pages[x].incidentIDs) >= 1
                 /\ \A j \in 1..Len(incidents) :
                       InIDsOf(x, j) => SectionLists(j, pages[x].link)
                 /\ ~OtherPagesLists(pages[x].link)
              \/ /\ Len(pages[x].incidentIDs) = 0
                 /\ OtherPagesCount(pages[x].link) = 1
                 /\ \A t \in 1..Len(report.sections) :
                       ~SectionLists(t, pages[x].link)
        /\ report.totalPages = Cardinality(ListedLinks)

\* a report with one page under an incident and another under Other Pages
C27_Witness ==
    /\ Returned
    /\ Len(pages) = 2
    /\ \E x \in 1..2 : Len(pages[x].incidentIDs) >= 1
    /\ \E x \in 1..2 : Len(pages[x].incidentIDs) = 0
    /\ report.totalPages = 2


\* the pages of the paging answer whose creation timestamp does not parse
Unparseable == {x \in 1..Len(pdPages.list) : ~pdPages.list[x].createdAt.ok}

\* C30: a page whose creation timestamp cannot be parsed is neither dropped
\* nor a cause of failure: it is kept with a zero creation time, is linked to
\* no incident whatever the incidents' timestamps, and is listed under Other
\* Pages.
C30_UnparseablePageKeptUnlinked ==
    pc = "done" =>
        /\ outcome = "ok"
        /\ \A x \in Unparseable :
              /\ \E y \in 1..Len(pages) :
                    /\ pages[y].link = x
                    /\ pages[y].createdAt = ZeroTime
                    /\ pages[y].incidentIDs = <<>>
                    /\ \A j \in 1..Len(incidents) : ~InPagesOf(j, y)
              /\ OtherPagesLists(x)
              /\ \A t \in 1..Len(report.sections) : ~SectionLists(t, x)

\* a finished run with a resolved incident, a page linked to it and a page
\* whose timestamp does not parse
C30_Witness ==
    /\ pc = "done"
    /\ Unparseable # {}
    /\ \E j \in 1..Len(incidents) : Len(incidents[j].pages) >= 1
    /\ \E x \in Unparseable : OtherPagesLists(x)


(***************************************************************************)
(* getTeamId, turn by turn: every turn of its loop asks ListTeams for the    *)
(* teams at offset, and the paging service answers as it likes.             *)
(***************************************************************************)
MaxOffset == 3
MaxLimit == 2

\* the teams one answer of ListTeams may list
TeamListSamples ==
    {<<>>,
     <<[name |-> "Ops", id |-> "P1"]>>,
     <<[name |-> "Db", id |-> "P2"]>>,
     <<[name |-> "Ops", id |-> "P1"], [name |-> "ops", id |-> "P3"]>>,
     <<[name |-> "Db", id |-> "P2"], [name |-> "Ops", id |-> "P1"]>>}

\* the answers of ListTeams: an error, or the teams, More and Limit
ListTeamsAnswers ==
    [err : BOOLEAN, teams : TeamListSamples, more : BOOLEAN, limit : 0..MaxLimit]

\* one turn of getTeamId's loop on the answer resp: whether it returns, what it
\* returns, and the offset of the next turn
getTeamIdTurn(name, off, resp) ==
    LET hits == {j \in 1..Len(resp.teams) : ToLower(resp.teams[j].name) = name}
    IN IF resp.err
       THEN [returns |-> TRUE, id |-> "", err |-> "failed to list teams", offset |-> off]
       ELSE IF hits # {}
       THEN [returns |-> TRUE,
             id |-> resp.teams[CHOOSE j \in hits : \A h \in hits : j <= h].id,
             err |-> "", offset |-> off]
       ELSE IF ~resp.more
       THEN [returns |-> TRUE, id |-> "", err |-> "team not found", offset |-> off]
       ELSE [returns |-> FALSE, id |-> "", err |-> "", offset |-> off + resp.limit]

\* one turn of the loop: ListTeams at offset, then the loop body
GetTeamIdTurn ==
    /\ pc = "getTeamId"
    /\ \E resp \in ListTeamsAnswers :
          LET t == getTeamIdTurn(teamName, offset, resp)
          IN /\ t.offset <= MaxOffset
             /\ response' = resp
             /\ asked' = asked \cup {offset}
             /\ repeated' = (repeated \/ offset \in asked)
             /\ offset' = t.offset
             /\ teamID' = IF t.returns THEN [id |-> t.id, err |-> t.err] ELSE teamID
             /\ pc' = IF t.returns THEN "gotTeamId" ELSE "getTeamId"
    /\ UNCHANGED <<request, ddIncidents, pdTeamDir, pdPages, outcome, ddCalls, pdCalls,
                   warnings, pagerdutyTeams, incidents, regexReplace, k, locals, pages,
                   ci, report, doUpload, confluence, stdout, posted, exitStatus,
                   exitMsg, markdownContent, teamName>>

NextGetTeamId == GetTeamIdTurn

InitGetTeamId ==
    /\ request = BaseRequest
    /\ pdTeamDir = BaseTeamDir
    /\ ddIncidents = OneIncident
    /\ pdPages = OnePage
    /\ pc = "getTeamId"
    /\ outcome = "none"
    /\ ddCalls = 0 /\ pdCalls = 0 /\ warnings = 0
    /\ pagerdutyTeams = <<>> /\ incidents = <<>> /\ regexReplace = <<>>
    /\ k = 1 /\ locals = <<>> /\ pages = <<>> /\ ci = 1
    /\ report = EmptyReport
    /\ NoUpload
    /\ stdout = <<>> /\ posted = <<>>
    /\ exitStatus = "running" /\ exitMsg = <<>>
    /\ markdownContent = <<>>
    /\ teamName \in {"ops", "db"}
    /\ offset = 0
    /\ response = NoResponse
    /\ asked = {}
    /\ repeated = FALSE
    /\ teamID = NoTeamID

\* the loop neither blocks nor yields: while it has not returned, it takes its
\* next turn
SpecGetTeamId == InitGetTeamId /\ [][NextGetTeamId]_vars /\ WF_vars(GetTeamIdTurn)

\* getTeamId has returned what its last answer calls for
ReturnsByLastAnswer ==
    LET hits == {j \in 1..Len(response.teams) :
                    ToLower(response.teams[j].name) = teamName}
    IN \/ response.err /\ teamID = [id |-> "", err |-> "failed to list teams"]
       \/ /\ ~response.err /\ hits # {}
          /\ \E j \in hits : /\ \A h \in hits : j <= h
                             /\ teamID = [id |-> response.teams[j].id, err |-> ""]
       \/ /\ ~response.err /\ hits = {} /\ ~response.more
          /\ teamID = [id |-> "", err |-> "team not found"]

\* C28: getTeamId terminates for every sequence of answers of the team-listing
\* collaborator, returning the id of the first team whose lower-cased name
\* equals the requested name, or a listing error, or "team not found" once an
\* answer reports that no more results exist; and it never asks for the same
\* offset twice.
C28_TerminatesNeverRepeatsOffset ==
    /\ <>(pc = "gotTeamId")
    /\ [](pc = "gotTeamId" => ReturnsByLastAnswer)
    /\ [](~repeated)

====
